---- MODULE Spec2Model ----
(***************************************************************************)
(* A model of github.com/matthewpi/sd (linux build): the sdlisten package  *)
(* (socket activation: Files, Listeners, TLSListeners, PacketConns) and    *)
(* the sdnotify package (sd_notify messages and the watchdog interval).    *)
(*                                                                         *)
(* A byte string is a sequence of one-character strings.  An environment   *)
(* variable is either Unset or a byte string.  A []T slice is a sequence;  *)
(* a nil slice and an empty slice are both the empty sequence.  A joined   *)
(* error is the sequence of its parts; the nil error is the empty one.     *)
(***************************************************************************)
EXTENDS Integers, Sequences, FiniteSets, TLC

\* ------------------------------------------------------------------ bounds
\* Largest LISTEN_FDS count the environments of the model carry.
MaxFds == 3
\* Longest LISTEN_FDNAMES value the environments of the model carry.
MaxNamesLen == 3
\* Longest message handed to Status/Error/Notify.
MaxMsgLen == 2
\* Threads that call into sdnotify concurrently.
MaxThreads == 2
\* Keep-alives the loop of the examples sends.
MaxPings == 2
\* Calls of sdnotify the threads make in all.
MaxCalls == 4
\* Width in bits of the model's int, int64 and time.Duration (64 in the build).
IntBits == 16

\* ------------------------------------------------------- integers, strings
MaxInt == 2^(IntBits - 1) - 1
MinInt == -(2^(IntBits - 1))

\* Two's-complement wrap of x to IntBits bits.
Wrap(x) == ((x - MinInt) % 2^IntBits) + MinInt

Digits == <<"0", "1", "2", "3", "4", "5", "6", "7", "8", "9">>
IsDigit(c) == \E i \in 1..10 : Digits[i] = c
DigitVal(c) == (CHOOSE i \in 1..10 : Digits[i] = c) - 1

RECURSIVE Magnitude(_)
\* The value of a string of decimal digits.
Magnitude(s) ==
    IF s = <<>> THEN 0
    ELSE 10 * Magnitude(SubSeq(s, 1, Len(s) - 1)) + DigitVal(s[Len(s)])

\* strconv.ParseInt(s, 10, 64): an optional sign, then one or more decimal
\* digits; a syntax error otherwise, a range error outside the int's width.
ParseInt(s) ==
    LET signed == s # <<>> /\ s[1] \in {"+", "-"}
        body   == IF signed THEN Tail(s) ELSE s
        neg    == signed /\ s[1] = "-"
    IN  IF body = <<>> \/ \E i \in 1..Len(body) : ~IsDigit(body[i])
        THEN [ok |-> FALSE, val |-> 0]
        ELSE LET m == Magnitude(body)
             IN  IF (neg /\ m > -MinInt) \/ (~neg /\ m > MaxInt)
                 THEN [ok |-> FALSE, val |-> 0]
                 ELSE [ok |-> TRUE, val |-> IF neg THEN -m ELSE m]

\* strconv.Atoi: ParseInt at the width of int.
Atoi(s) == ParseInt(s)

RECURSIVE NatDigits(_)
NatDigits(n) ==
    IF n < 10 THEN <<Digits[n + 1]>>
    ELSE Append(NatDigits(n \div 10), Digits[(n % 10) + 1])

\* strconv.Itoa / strconv.FormatInt(n, 10).
Itoa(n) == IF n < 0 THEN <<"-">> \o NatDigits(-n) ELSE NatDigits(n)

RECURSIVE Split(_, _)
\* strings.Split(s, sep) for a one-byte separator: always at least one part.
Split(s, sep) ==
    IF \A i \in 1..Len(s) : s[i] # sep THEN <<s>>
    ELSE LET i == CHOOSE j \in 1..Len(s) :
                      s[j] = sep /\ \A k \in 1..(j - 1) : s[k] # sep
         IN  <<SubSeq(s, 1, i - 1)>> \o Split(SubSeq(s, i + 1, Len(s)), sep)

RECURSIVE SeqsUpTo(_, _)
\* All sequences over S of length at most n.
SeqsUpTo(S, n) ==
    IF n = 0 THEN {<<>>}
    ELSE LET shorter == SeqsUpTo(S, n - 1)
         IN  shorter \cup {Append(s, c) : s \in shorter, c \in S}

\* ------------------------------------------------------------ environment
\* The value of a variable that is not set, and of one set to the string s.
Unset == [set |-> FALSE, val |-> <<>>]
Value(s) == [set |-> TRUE, val |-> s]

\* os.Getenv: the empty string for a variable that is not set.
Getenv(e, name) == IF e[name].set THEN e[name].val ELSE <<>>

\* os.Unsetenv.
Unsetenv(e, name) == [e EXCEPT ![name] = Unset]

\* os.Getpid of the modelled process.
Getpid == 7

VARIABLES
    env,        \* the process environment: variable name -> Unset or Value(s)
    fdKind,     \* what the supervisor left on each inherited descriptor number
    cloexec,    \* descriptor numbers marked close-on-exec by the library
    closes,     \* descriptor number -> times the library closed a raw handle on it
    ret,        \* the last sdlisten call: its name, arguments and results
    panicked    \* TRUE once a call has panicked (the process is gone)

VARIABLES
    socketPath, \* the package variable socketPath (NOTIFY_SOCKET at start)
    clock,      \* CLOCK_MONOTONIC now: [sec, nsec]
    received,   \* datagrams queued on the supervisor's socket, oldest first
    call        \* the last sdnotify call: name, arguments, what it did, result

VARIABLES
    wd          \* the last WatchdogInterval call: [called, d, err]

VARIABLES
    th,         \* thread -> its sdnotify call in progress: position and locals
    conns,      \* the datagram connections dialled so far, in dial order
    delivered,  \* the datagrams written to the supervisor's socket, in order
    ka          \* the keep-alive goroutine of the examples and its context

listenVars == <<env, fdKind, cloexec, closes, ret, panicked>>
notifyVars == <<socketPath, clock, received, call>>
stepVars == <<th, conns, delivered, ka>>
vars == <<env, fdKind, cloexec, closes, ret, panicked,
          socketPath, clock, received, call, wd, th, conns, delivered, ka>>

\* --------------------------------------------------------------- sdlisten
listenFdsStart == 3

\* The descriptor numbers the model's supervisor can pass.
Fds == listenFdsStart .. (listenFdsStart + MaxFds - 1)

\* FileName without the check that the listed name is not empty.
FileNameAnyListed(names, i, fd) ==
    IF i < Len(names)
    THEN names[i + 1]
    ELSE <<"L", "I", "S", "T", "E", "N", "_", "F", "D", "_">> \o Itoa(fd)

\* The name Files gives descriptor fd at index i (from 0) of the name list.
FileName(names, i, fd) ==
    IF i < Len(names) /\ Len(names[i + 1]) > 0
    THEN names[i + 1]
    ELSE <<"L", "I", "S", "T", "E", "N", "_", "F", "D", "_">> \o Itoa(fd)

\* FilesBody without the comparison of LISTEN_PID with the process id.
FilesBodyAnyPid(e) ==
    LET pid   == Atoi(Getenv(e, "LISTEN_PID"))
        nfds  == Atoi(Getenv(e, "LISTEN_FDS"))
        names == Split(Getenv(e, "LISTEN_FDNAMES"), ":")
        none  == [files |-> <<>>, marked |-> {}, panic |-> FALSE]
    IN  IF ~pid.ok THEN none
        ELSE IF ~nfds.ok \/ nfds.val = 0 THEN none
        ELSE IF nfds.val < 0 THEN [none EXCEPT !.panic = TRUE]
        ELSE [files  |-> [i \in 1..nfds.val |->
                            [fd   |-> (i - 1) + listenFdsStart,
                             name |-> FileName(names, i - 1, (i - 1) + listenFdsStart)]],
              marked |-> {(i - 1) + listenFdsStart : i \in 1..nfds.val},
              panic  |-> FALSE]

\* The body of Files after the deferred unset is registered: the handles it
\* returns, the descriptors it marks close-on-exec, and whether it panics
\* (make([]*os.File, nfds) with a negative nfds).
FilesBody(e) ==
    LET pid   == Atoi(Getenv(e, "LISTEN_PID"))
        nfds  == Atoi(Getenv(e, "LISTEN_FDS"))
        names == Split(Getenv(e, "LISTEN_FDNAMES"), ":")
        none  == [files |-> <<>>, marked |-> {}, panic |-> FALSE]
    IN  IF ~pid.ok \/ pid.val # Getpid THEN none
        ELSE IF ~nfds.ok \/ nfds.val = 0 THEN none
        ELSE IF nfds.val < 0 THEN [none EXCEPT !.panic = TRUE]
        ELSE [files  |-> [i \in 1..nfds.val |->
                            [fd   |-> (i - 1) + listenFdsStart,
                             name |-> FileName(names, i - 1, (i - 1) + listenFdsStart)]],
              marked |-> {(i - 1) + listenFdsStart : i \in 1..nfds.val},
              panic  |-> FALSE]

\* The deferred function of Files runs exactly when one argument was passed
\* and it is true.
UnsetRequested(unsetEnvironment) ==
    Len(unsetEnvironment) = 1 /\ unsetEnvironment[1]

\* FilesEnv with the unset of LISTEN_FDNAMES forgotten.
FilesEnvKeepsNames(e, unsetEnvironment) ==
    IF Len(unsetEnvironment) = 1 /\ unsetEnvironment[1]
    THEN Unsetenv(Unsetenv(e, "LISTEN_PID"), "LISTEN_FDS")
    ELSE e

\* The environment Files leaves behind (the deferred unsets run on return and
\* on panic alike).
FilesEnv(e, unsetEnvironment) ==
    IF UnsetRequested(unsetEnvironment)
    THEN Unsetenv(Unsetenv(Unsetenv(e, "LISTEN_PID"), "LISTEN_FDS"), "LISTEN_FDNAMES")
    ELSE e

NoRet == [op |-> "none", unset |-> <<>>, tls |-> FALSE,
          files |-> <<>>, listeners |-> <<>>, conns |-> <<>>, err |-> <<>>]

\* Files(unsetEnvironment ...bool).
Files(unsetEnvironment) ==
    /\ ~panicked
    /\ LET r == FilesBody(env)
       IN  /\ env' = FilesEnv(env, unsetEnvironment)
           /\ cloexec' = cloexec \cup r.marked
           /\ panicked' = r.panic
           /\ ret' = [NoRet EXCEPT !.op = "Files", !.unset = unsetEnvironment,
                                   !.files = r.files]
    /\ UNCHANGED <<fdKind, closes, notifyVars, wd, stepVars>>

\* What is on a descriptor number: a TCP listening socket, a unix stream
\* listening socket, a UDP socket, or something that is not a socket.
Kinds == {"tcp", "unix", "udp", "file"}
KindOf(kinds, fd) == IF fd \in DOMAIN kinds THEN kinds[fd] ELSE "file"

\* net.FileListener succeeds on TCP and unix sockets; the listener's
\* Addr().Network() is the socket's family.
FileListenerOk(kind) == kind \in {"tcp", "unix"}
\* net.FilePacketConn succeeds on UDP and unix sockets.
FilePacketConnOk(kind) == kind \in {"udp", "unix"}

NoAcc == [out |-> <<>>, err |-> <<>>, closed |-> <<>>]

RECURSIVE ListenersLoopAborting(_, _, _)
\* ListenersLoop leaving the loop at the first failed conversion.
ListenersLoopAborting(files, kinds, acc) ==
    IF files = <<>> THEN acc
    ELSE LET f == Head(files)
         IN  IF ~(KindOf(kinds, f.fd) \in {"tcp", "unix"})
             THEN [acc EXCEPT !.err = Append(@, [fd |-> f.fd, name |-> f.name])]
             ELSE ListenersLoopAborting(Tail(files), kinds,
                      [acc EXCEPT !.closed = Append(@, f.fd),
                                  !.out = Append(@, [fd |-> f.fd, name |-> f.name,
                                                     network |-> KindOf(kinds, f.fd),
                                                     tls |-> FALSE])])

RECURSIVE ListenersLoop(_, _, _)
\* The loop of Listeners over the handles of Files: a failed conversion is
\* joined to errs and the loop continues; a converted handle is closed and
\* its listener appended.
ListenersLoop(files, kinds, acc) ==
    IF files = <<>> THEN acc
    ELSE LET f == Head(files)
         IN  IF ~FileListenerOk(KindOf(kinds, f.fd))
             THEN ListenersLoop(Tail(files), kinds,
                      [acc EXCEPT !.err = Append(@, [fd |-> f.fd, name |-> f.name])])
             ELSE ListenersLoop(Tail(files), kinds,
                      [acc EXCEPT !.closed = Append(@, f.fd),
                                  !.out = Append(@, [fd |-> f.fd, name |-> f.name,
                                                     network |-> KindOf(kinds, f.fd),
                                                     tls |-> FALSE])])

RECURSIVE PacketConnsLoopClosingAll(_, _, _)
\* PacketConnsLoop closing the raw handle before it looks at the error.
PacketConnsLoopClosingAll(files, kinds, acc) ==
    IF files = <<>> THEN acc
    ELSE LET f == Head(files)
         IN  IF ~(KindOf(kinds, f.fd) \in {"udp", "unix"})
             THEN PacketConnsLoopClosingAll(Tail(files), kinds,
                      [acc EXCEPT !.closed = Append(@, f.fd),
                                  !.err = Append(@, [fd |-> f.fd, name |-> f.name])])
             ELSE PacketConnsLoopClosingAll(Tail(files), kinds,
                      [acc EXCEPT !.closed = Append(@, f.fd),
                                  !.out = Append(@, [fd |-> f.fd, name |-> f.name])])

RECURSIVE PacketConnsLoop(_, _, _)
\* The loop of PacketConns, the same with net.FilePacketConn.
PacketConnsLoop(files, kinds, acc) ==
    IF files = <<>> THEN acc
    ELSE LET f == Head(files)
         IN  IF ~FilePacketConnOk(KindOf(kinds, f.fd))
             THEN PacketConnsLoop(Tail(files), kinds,
                      [acc EXCEPT !.err = Append(@, [fd |-> f.fd, name |-> f.name])])
             ELSE PacketConnsLoop(Tail(files), kinds,
                      [acc EXCEPT !.closed = Append(@, f.fd),
                                  !.out = Append(@, [fd |-> f.fd, name |-> f.name])])

\* What Listeners returns in environment e: (listeners, errs), with the raw
\* handles it closed and whether Files panicked under it.
ListenersResult(e, kinds) ==
    LET r == FilesBody(e)
        a == ListenersLoop(r.files, kinds, NoAcc)
    IN  [listeners |-> a.out, err |-> a.err, closed |-> a.closed,
         marked |-> r.marked, panic |-> r.panic]

\* What TLSListeners(tlsConfig) returns; hasConfig is tlsConfig != nil.
TLSListenersResult(e, kinds, hasConfig) ==
    LET b == ListenersResult(e, kinds)
    IN  IF b.err # <<>> THEN [b EXCEPT !.listeners = <<>>]
        ELSE IF b.listeners = <<>> \/ ~hasConfig THEN b
        ELSE [b EXCEPT !.listeners =
                 [i \in 1..Len(b.listeners) |->
                     IF b.listeners[i].network = "tcp"
                     THEN [b.listeners[i] EXCEPT !.tls = TRUE]
                     ELSE b.listeners[i]]]

\* closes after the library closed a raw handle on each descriptor of fds.
RECURSIVE CloseAll(_, _)
CloseAll(c, fds) ==
    IF fds = <<>> THEN c
    ELSE CloseAll([c EXCEPT ![Head(fds)] = @ + 1], Tail(fds))

\* Listeners(): files := Files(true), then the conversion loop.
Listeners ==
    /\ ~panicked
    /\ LET r == ListenersResult(env, fdKind)
       IN  /\ env' = FilesEnv(env, <<TRUE>>)
           /\ cloexec' = cloexec \cup r.marked
           /\ panicked' = r.panic
           /\ closes' = CloseAll(closes, r.closed)
           /\ ret' = [NoRet EXCEPT !.op = "Listeners", !.unset = <<TRUE>>,
                                   !.listeners = r.listeners, !.err = r.err]
    /\ UNCHANGED <<fdKind, notifyVars, wd, stepVars>>

\* TLSListeners(tlsConfig).
TLSListeners(hasConfig) ==
    /\ ~panicked
    /\ LET r == TLSListenersResult(env, fdKind, hasConfig)
       IN  /\ env' = FilesEnv(env, <<TRUE>>)
           /\ cloexec' = cloexec \cup r.marked
           /\ panicked' = r.panic
           /\ closes' = CloseAll(closes, r.closed)
           /\ ret' = [NoRet EXCEPT !.op = "TLSListeners", !.unset = <<TRUE>>,
                                   !.tls = hasConfig,
                                   !.listeners = r.listeners, !.err = r.err]
    /\ UNCHANGED <<fdKind, notifyVars, wd, stepVars>>

\* PacketConns().
PacketConns ==
    /\ ~panicked
    /\ LET r == FilesBody(env)
           a == PacketConnsLoop(r.files, fdKind, NoAcc)
       IN  /\ env' = FilesEnv(env, <<TRUE>>)
           /\ cloexec' = cloexec \cup r.marked
           /\ panicked' = r.panic
           /\ closes' = CloseAll(closes, a.closed)
           /\ ret' = [NoRet EXCEPT !.op = "PacketConns", !.unset = <<TRUE>>,
                                   !.conns = a.out, !.err = a.err]
    /\ UNCHANGED <<fdKind, notifyVars, wd, stepVars>>

\* --------------------------------------------------------------- sdnotify
\* READY=1 as a line, with the newline a text protocol would end it with.
readyMessageLine == <<"R", "E", "A", "D", "Y", "=", "1", "\n">>

readyMessage == <<"R", "E", "A", "D", "Y", "=", "1">>
reloadingMessage == <<"R", "E", "L", "O", "A", "D", "I", "N", "G", "=", "1">>
stoppingMessage == <<"S", "T", "O", "P", "P", "I", "N", "G", "=", "1">>
statusPrefix == <<"S", "T", "A", "T", "U", "S", "=">>
errnoPrefix == <<"E", "R", "R", "N", "O", "=">>
monotonicUsecPrefix ==
    <<"M", "O", "N", "O", "T", "O", "N", "I", "C", "_", "U", "S", "E", "C", "=">>
watchdogMessage == <<"W", "A", "T", "C", "H", "D", "O", "G", "=", "1">>
watchdogTriggerMessage ==
    <<"W", "A", "T", "C", "H", "D", "O", "G", "=", "t", "r", "i", "g", "g", "e", "r">>

\* socketAddr without the check for an empty socketPath.
socketAddrAlways(path) == TRUE

\* socketAddr(): nil (FALSE) when socketPath is empty.
socketAddr(path) == path # <<>>

\* sdnotify(payload) with openSocket inlined.  dialOk and writeOk are what
\* net.DialUnix and c.Write do in this call.  The result counts the
\* connections dialled, written to and closed, and lists the datagrams sent.
sdnotify(path, payload, dialOk, writeOk) ==
    IF ~socketAddr(path)
    THEN [dials |-> 0, writes |-> 0, closes |-> 0, sent |-> <<>>, err |-> "nil"]
    ELSE IF ~dialOk
    THEN [dials |-> 1, writes |-> 0, closes |-> 0, sent |-> <<>>, err |-> "open"]
    ELSE IF ~writeOk
    THEN [dials |-> 1, writes |-> 1, closes |-> 1, sent |-> <<>>, err |-> "send"]
    ELSE [dials |-> 1, writes |-> 1, closes |-> 1, sent |-> <<payload>>, err |-> "nil"]

RECURSIVE formatErrorMessageFrom(_, _)
\* The loop of formatErrorMessage from index i on.
formatErrorMessageFrom(v, i) ==
    IF i > Len(v) THEN v
    ELSE IF v[i] = "\n" THEN formatErrorMessageFrom([v EXCEPT ![i] = " "], i + 1)
    ELSE formatErrorMessageFrom(v, i + 1)

\* formatErrorMessage leaving its loop after the first replacement.
formatErrorMessageFirstOnly(v) ==
    IF \A i \in 1..Len(v) : v[i] # "\n" THEN v
    ELSE LET first == CHOOSE i \in 1..Len(v) :
                          v[i] = "\n" /\ \A j \in 1..(i - 1) : v[j] # "\n"
         IN  [v EXCEPT ![first] = " "]

\* formatErrorMessage(v): new-lines replaced by spaces, in place.
formatErrorMessage(v) == formatErrorMessageFrom(v, 1)

\* prependString(prefix, data).
prependString(prefix, data) ==
    [i \in 1..(Len(prefix) + Len(data)) |->
        IF i <= Len(prefix) THEN prefix[i] ELSE data[i - Len(prefix)]]

\* ErrorPayload appending ERRNO= for every errno but zero.
ErrorPayloadNonZero(msg, errno) ==
    LET status == statusPrefix \o formatErrorMessage(msg)
    IN  IF errno # 0 THEN status \o <<"\n">> \o errnoPrefix \o Itoa(errno)
        ELSE status

\* The buffer ErrorBytes hands to sdnotify.
ErrorPayload(msg, errno) ==
    LET status == statusPrefix \o formatErrorMessage(msg)
    IN  IF errno > 0 THEN status \o <<"\n">> \o errnoPrefix \o Itoa(errno)
        ELSE status

\* UnixMilli in the place of UnixMicro.
UnixMilli(t) == t.sec * 1000 + (t.nsec \div 1000000)

\* time.Time.UnixMicro of time.Unix(sec, nsec).
UnixMicro(t) == t.sec * 1000000 + (t.nsec \div 1000)

\* The buffer Reloading hands to sdnotify when the clock read now.
ReloadingPayload(now) ==
    reloadingMessage \o <<"\n">> \o monotonicUsecPrefix \o Itoa(UnixMicro(now))

NoCall == [op |-> "none", msg |-> <<>>, errno |-> 0, buf |-> <<>>,
           dials |-> 0, writes |-> 0, closes |-> 0, sent |-> <<>>, err |-> "nil"]

\* The record of a call op(msg, errno) that handed its payload to sdnotify
\* with outcome r; buf is the caller's byte slice when the call returns.
Returned(op, msg, errno, buf, r) ==
    [op |-> op, msg |-> msg, errno |-> errno, buf |-> buf,
     dials |-> r.dials, writes |-> r.writes, closes |-> r.closes,
     sent |-> r.sent, err |-> r.err]

\* In every call below the supervisor has read the earlier datagram off its
\* socket (received is empty), as the receiver of TestSdnotify does.

\* Notify(payload).
Notify(payload) ==
    /\ received = <<>>
    /\ \E dialOk \in BOOLEAN, writeOk \in BOOLEAN :
          LET r == sdnotify(socketPath, payload, dialOk, writeOk)
          IN  /\ received' = received \o r.sent
              /\ call' = Returned("Notify", payload, 0, payload, r)
    /\ UNCHANGED <<socketPath, clock, listenVars, wd, stepVars>>

\* Ready().
Ready ==
    /\ received = <<>>
    /\ \E dialOk \in BOOLEAN, writeOk \in BOOLEAN :
          LET r == sdnotify(socketPath, readyMessage, dialOk, writeOk)
          IN  /\ received' = received \o r.sent
              /\ call' = Returned("Ready", <<>>, 0, <<>>, r)
    /\ UNCHANGED <<socketPath, clock, listenVars, wd, stepVars>>

\* Stopping().
Stopping ==
    /\ received = <<>>
    /\ \E dialOk \in BOOLEAN, writeOk \in BOOLEAN :
          LET r == sdnotify(socketPath, stoppingMessage, dialOk, writeOk)
          IN  /\ received' = received \o r.sent
              /\ call' = Returned("Stopping", <<>>, 0, <<>>, r)
    /\ UNCHANGED <<socketPath, clock, listenVars, wd, stepVars>>

\* Status(msg): StatusBytes on a copy of msg.
Status(msg) ==
    /\ received = <<>>
    /\ \E dialOk \in BOOLEAN, writeOk \in BOOLEAN :
          LET r == sdnotify(socketPath, prependString(statusPrefix, msg), dialOk, writeOk)
          IN  /\ received' = received \o r.sent
              /\ call' = Returned("Status", msg, 0, msg, r)
    /\ UNCHANGED <<socketPath, clock, listenVars, wd, stepVars>>

\* StatusBytes(msg).
StatusBytes(msg) ==
    /\ received = <<>>
    /\ \E dialOk \in BOOLEAN, writeOk \in BOOLEAN :
          LET r == sdnotify(socketPath, prependString(statusPrefix, msg), dialOk, writeOk)
          IN  /\ received' = received \o r.sent
              /\ call' = Returned("StatusBytes", msg, 0, msg, r)
    /\ UNCHANGED <<socketPath, clock, listenVars, wd, stepVars>>

\* Error(err, errno) with err.Error() = msg; []byte(msg) is a copy.
Error(msg, errno) ==
    /\ received = <<>>
    /\ \E dialOk \in BOOLEAN, writeOk \in BOOLEAN :
          LET r == sdnotify(socketPath, ErrorPayload(msg, errno), dialOk, writeOk)
          IN  /\ received' = received \o r.sent
              /\ call' = Returned("Error", msg, errno, msg, r)
    /\ UNCHANGED <<socketPath, clock, listenVars, wd, stepVars>>

\* ErrorMessage(msg, errno); []byte(msg) is a copy.
ErrorMessage(msg, errno) ==
    /\ received = <<>>
    /\ \E dialOk \in BOOLEAN, writeOk \in BOOLEAN :
          LET r == sdnotify(socketPath, ErrorPayload(msg, errno), dialOk, writeOk)
          IN  /\ received' = received \o r.sent
              /\ call' = Returned("ErrorMessage", msg, errno, msg, r)
    /\ UNCHANGED <<socketPath, clock, listenVars, wd, stepVars>>

\* ErrorBytes(msg, errno): formatErrorMessage rewrites the caller's slice.
ErrorBytes(msg, errno) ==
    /\ received = <<>>
    /\ \E dialOk \in BOOLEAN, writeOk \in BOOLEAN :
          LET r == sdnotify(socketPath, ErrorPayload(msg, errno), dialOk, writeOk)
          IN  /\ received' = received \o r.sent
              /\ call' = Returned("ErrorBytes", msg, errno, formatErrorMessage(msg), r)
    /\ UNCHANGED <<socketPath, clock, listenVars, wd, stepVars>>

\* Watchdog().
Watchdog ==
    /\ received = <<>>
    /\ \E dialOk \in BOOLEAN, writeOk \in BOOLEAN :
          LET r == sdnotify(socketPath, watchdogMessage, dialOk, writeOk)
          IN  /\ received' = received \o r.sent
              /\ call' = Returned("Watchdog", <<>>, 0, <<>>, r)
    /\ UNCHANGED <<socketPath, clock, listenVars, wd, stepVars>>

\* WatchdogTrigger().
WatchdogTrigger ==
    /\ received = <<>>
    /\ \E dialOk \in BOOLEAN, writeOk \in BOOLEAN :
          LET r == sdnotify(socketPath, watchdogTriggerMessage, dialOk, writeOk)
          IN  /\ received' = received \o r.sent
              /\ call' = Returned("WatchdogTrigger", <<>>, 0, <<>>, r)
    /\ UNCHANGED <<socketPath, clock, listenVars, wd, stepVars>>

\* Reloading(): reads the clock, then one sdnotify with both fields; when
\* clock_gettime fails it returns the error before any socket is opened.
Reloading ==
    \/ /\ call' = [NoCall EXCEPT !.op = "Reloading", !.err = "clock"]
       /\ UNCHANGED <<socketPath, clock, received, listenVars, wd, stepVars>>
    \/ /\ received = <<>>
       /\ \E dialOk \in BOOLEAN, writeOk \in BOOLEAN :
             LET r == sdnotify(socketPath, ReloadingPayload(clock), dialOk, writeOk)
             IN  /\ received' = received \o r.sent
                 /\ call' = Returned("Reloading", <<>>, 0, <<>>, r)
       /\ UNCHANGED <<socketPath, clock, listenVars, wd, stepVars>>

\* The instants the model's monotonic clock takes, in increasing order.
ClockValues ==
    <<[sec |-> 0, nsec |-> 999], [sec |-> 0, nsec |-> 1000],
      [sec |-> 2, nsec |-> 100392170]>>

\* Time passes: CLOCK_MONOTONIC only moves forward.
Tick ==
    /\ \E i \in 1..Len(ClockValues), j \in 1..Len(ClockValues) :
          i < j /\ clock = ClockValues[i] /\ clock' = ClockValues[j]
    /\ UNCHANGED <<socketPath, received, call, listenVars, wd, stepVars>>

\* The supervisor reads the oldest datagram off its socket.
Receive ==
    /\ received # <<>>
    /\ received' = Tail(received)
    /\ UNCHANGED <<socketPath, clock, call, listenVars, wd, stepVars>>

\* --------------------------------------------------------------- watchdog
\* time.Microsecond in nanoseconds.
Microsecond == 1000

\* WatchdogInterval(): (d, err) with d in nanoseconds; the multiplication is
\* done at the width of time.Duration.
WatchdogIntervalResult(e) ==
    LET wdUsec == Getenv(e, "WATCHDOG_USEC")
        usec   == ParseInt(wdUsec)
        wdPid  == Getenv(e, "WATCHDOG_PID")
        pid    == Atoi(wdPid)
        zero   == [d |-> 0, err |-> "nil"]
    IN  IF wdUsec = <<>> THEN zero
        ELSE IF ~usec.ok THEN zero
        ELSE IF usec.val < 1 THEN zero
        ELSE IF wdPid = <<>> THEN zero
        ELSE IF ~pid.ok THEN zero
        ELSE IF pid.val # Getpid THEN zero
        ELSE [d |-> Wrap(usec.val * Microsecond), err |-> "nil"]

WatchdogInterval ==
    /\ LET r == WatchdogIntervalResult(env)
       IN  wd' = [called |-> TRUE, d |-> r.d, err |-> r.err]
    /\ UNCHANGED <<listenVars, notifyVars, stepVars>>

\* ------------------------------------------------- sdnotify, step by step
\* The same sdnotify(payload), one thread per caller, a step for each of the
\* calls it makes: openSocket, c.Write, the deferred c.Close, the return.
Threads == 1..MaxThreads

NoThread == [pc |-> "idle", payload |-> <<>>, c |-> 0, err |-> "nil",
             dials |-> 0, writes |-> 0, dialFailed |-> FALSE,
             writeFailed |-> FALSE, sentOk |-> FALSE, calls |-> 0]

\* The payload thread t sends: READY=1, WATCHDOG=1 and STOPPING=1 in turn, so
\* that concurrent callers send different datagrams.
ThreadPayload(t) ==
    <<readyMessage, watchdogMessage, stoppingMessage>>[((t - 1) % 3) + 1]

\* The calls threads 1..n have entered so far.
RECURSIVE CallsStarted(_, _)
CallsStarted(threads, n) ==
    IF n = 0 THEN 0
    ELSE threads[n].calls + (IF threads[n].pc = "idle" THEN 0 ELSE 1)
            + CallsStarted(threads, n - 1)

\* A thread enters sdnotify(payload): Notify, or any wrapper once its payload
\* is built.
NotifyEnter(t) ==
    /\ th[t].pc = "idle"
    /\ CallsStarted(th, MaxThreads) < MaxCalls
    /\ th' = [th EXCEPT ![t] = [NoThread EXCEPT !.pc = "openSocket",
                                               !.payload = ThreadPayload(t),
                                               !.calls = th[t].calls]]
    /\ UNCHANGED <<conns, delivered, ka, listenVars, notifyVars, wd>>

\* c, err := openSocket(): (nil, nil) without an address; otherwise
\* net.DialUnix makes a new connection or fails.
OpenSocket(t) ==
    /\ th[t].pc = "openSocket"
    /\ IF ~socketAddr(socketPath)
       THEN /\ th' = [th EXCEPT ![t].pc = "return"]
            /\ UNCHANGED conns
       ELSE \E dialOk \in BOOLEAN :
               IF dialOk
               THEN /\ conns' = Append(conns, [dialer |-> t, open |-> TRUE,
                                               payload |-> th[t].payload,
                                               writes |-> 0, misused |-> FALSE])
                    /\ th' = [th EXCEPT ![t].pc = "write",
                                        ![t].c = Len(conns) + 1,
                                        ![t].dials = @ + 1]
               ELSE /\ th' = [th EXCEPT ![t].pc = "return",
                                        ![t].err = "open",
                                        ![t].dials = @ + 1,
                                        ![t].dialFailed = TRUE]
                    /\ UNCHANGED conns
    /\ UNCHANGED <<delivered, ka, listenVars, notifyVars, wd>>

\* The connection a thread's sdnotify writes to and closes: the one a package
\* variable would hold, the latest dialled by any thread.
ConnUsedShared(threads, cs, t) == Len(cs)

\* The connection a thread's sdnotify writes to and closes: its local c.
ConnUsed(threads, cs, t) == threads[t].c

\* The error sdnotify returns after c.Write, with the write's error dropped.
WriteErrorDropped(writeOk) == "nil"

\* The error sdnotify returns after c.Write.
WriteError(writeOk) == IF writeOk THEN "nil" ELSE "send"

\* c.Close() runs after c.Write, were it called on the success path only.
ClosesAfterWriteOnSuccess(writeOk) == writeOk

\* c.Close() runs after c.Write: it is deferred, so on both paths.
ClosesAfterWrite(writeOk) == TRUE

\* c.Write(payload): one datagram holding the whole payload, or an error.  A
\* write on a closed connection fails.
Write(t) ==
    /\ th[t].pc = "write"
    /\ LET id == ConnUsed(th, conns, t)
       IN  \E writeOk \in BOOLEAN :
              LET ok == writeOk /\ conns[id].open
              IN  /\ conns' = [conns EXCEPT
                                 ![id].writes = @ + 1,
                                 ![id].misused = @ \/ conns[id].dialer # t
                                                   \/ ~conns[id].open]
                  /\ delivered' = IF ok
                                  THEN Append(delivered, [data |-> th[t].payload,
                                                          conn |-> id, by |-> t])
                                  ELSE delivered
                  /\ th' = [th EXCEPT
                              ![t].pc = IF ClosesAfterWrite(ok) THEN "close"
                                        ELSE "return",
                              ![t].writes = @ + 1,
                              ![t].sentOk = ok,
                              ![t].writeFailed = ~ok,
                              ![t].err = WriteError(ok)]
    /\ UNCHANGED <<ka, listenVars, notifyVars, wd>>

\* The deferred c.Close().
DeferredClose(t) ==
    /\ th[t].pc = "close"
    /\ LET id == ConnUsed(th, conns, t)
       IN  conns' = [conns EXCEPT
                       ![id].open = FALSE,
                       ![id].misused = @ \/ conns[id].dialer # t \/ ~conns[id].open]
    /\ th' = [th EXCEPT ![t].pc = "return"]
    /\ UNCHANGED <<delivered, ka, listenVars, notifyVars, wd>>

\* sdnotify returns err to its caller; its locals are gone.
NotifyReturn(t) ==
    /\ th[t].pc = "return"
    /\ th' = [th EXCEPT ![t] = [NoThread EXCEPT !.calls = th[t].calls + 1]]
    /\ UNCHANGED <<conns, delivered, ka, listenVars, notifyVars, wd>>

\* ------------------------------------------- the keep-alive of the examples
\* Example_watchdog and Example_full: WatchdogInterval is read once; with
\* i > 0 a goroutine makes a ticker of period i and loops over a select on
\* ctx.Done() and t.C.  pc is the goroutine's position, tick says whether the
\* ticker's channel (of capacity one) holds a tick, pings counts the calls of
\* Watchdog.
NoKeepAlive == [pc |-> "none", interval |-> 0, cancelled |-> FALSE,
                tick |-> FALSE, pings |-> 0]

\* i, err := sdnotify.WatchdogInterval(); if i > 0 { go func ... }: the
\* goroutine makes its ticker and enters the loop.
KeepAliveStart ==
    /\ ka.pc = "none"
    /\ LET r == WatchdogIntervalResult(env)
       IN  ka' = [ka EXCEPT !.interval = r.d,
                            !.pc = IF r.err # "nil" THEN "osExit"
                                   ELSE IF r.d > 0 THEN "select"
                                   ELSE "noKeepAlive"]
    /\ UNCHANGED <<th, conns, delivered, listenVars, notifyVars, wd>>

\* The ticker fires: a tick waits in t.C unless one is waiting already.
TimerTick ==
    /\ ka.pc \in {"select", "break", "watchdog"}
    /\ ~ka.tick
    /\ ka.pings < MaxPings
    /\ ka' = [ka EXCEPT !.tick = TRUE]
    /\ UNCHANGED <<th, conns, delivered, listenVars, notifyVars, wd>>

\* The application's context is cancelled (stop() in Example_full).
Cancel ==
    /\ ka.pc \in {"select", "break", "watchdog"}
    /\ ~ka.cancelled
    /\ ka' = [ka EXCEPT !.cancelled = TRUE]
    /\ UNCHANGED <<th, conns, delivered, listenVars, notifyVars, wd>>

\* case <-ctx.Done(): chosen by the select once the context is cancelled.
SelectDone ==
    /\ ka.pc = "select"
    /\ ka.cancelled
    /\ ka' = [ka EXCEPT !.pc = "break"]
    /\ UNCHANGED <<th, conns, delivered, listenVars, notifyVars, wd>>

\* The statement the loop is at after the break of the ctx.Done() case: an
\* unlabelled break ends the select, and the for loop has no condition, so
\* the select is entered again.
AfterBreak == "select"

\* break, inside the select.
BreakSelect ==
    /\ ka.pc = "break"
    /\ ka' = [ka EXCEPT !.pc = AfterBreak]
    /\ UNCHANGED <<th, conns, delivered, listenVars, notifyVars, wd>>

\* case <-t.C: chosen by the select when a tick waits; with the context
\* cancelled as well the select picks either case.
SelectTick ==
    /\ ka.pc = "select"
    /\ ka.tick
    /\ ka' = [ka EXCEPT !.pc = "watchdog", !.tick = FALSE]
    /\ UNCHANGED <<th, conns, delivered, listenVars, notifyVars, wd>>

\* sdnotify.Watchdog() in the loop; its error is logged and the loop goes on.
KeepAliveWatchdog ==
    /\ ka.pc = "watchdog"
    /\ \E dialOk \in BOOLEAN, writeOk \in BOOLEAN :
          LET r == sdnotify(socketPath, watchdogMessage, dialOk, writeOk)
          IN  /\ received' = received \o r.sent
              /\ call' = Returned("Watchdog", <<>>, 0, <<>>, r)
    /\ ka' = [ka EXCEPT !.pc = "select", !.pings = @ + 1]
    /\ UNCHANGED <<socketPath, clock, th, conns, delivered, listenVars, wd>>

\* --------------------------------------------------------- specifications
EnvNames == {"LISTEN_PID", "LISTEN_FDS", "LISTEN_FDNAMES",
             "WATCHDOG_USEC", "WATCHDOG_PID"}
NoEnv == [n \in EnvNames |-> Unset]

\* Values a pid variable takes: unset, empty, not a number, this process
\* (plain and signed), another process.
PidValues ==
    {Unset, Value(<<>>), Value(<<"x">>), Value(Itoa(Getpid)),
     Value(<<"+">> \o Itoa(Getpid)), Value(Itoa(Getpid + 1))}

\* Values LISTEN_FDS takes: unset, empty, not a number, negative, 0..MaxFds.
FdsValues ==
    {Unset, Value(<<>>), Value(<<"x">>), Value(<<"-", "1">>)}
        \cup {Value(Itoa(n)) : n \in 0..MaxFds}

NameChars == {"a", "b", ":"}
\* Values LISTEN_FDNAMES takes.
NamesValues == {Unset} \cup {Value(s) : s \in SeqsUpTo(NameChars, MaxNamesLen)}

IdleListen ==
    /\ cloexec = {}
    /\ closes = [fd \in Fds |-> 0]
    /\ ret = NoRet
    /\ panicked = FALSE
IdleNotify ==
    /\ socketPath = <<>>
    /\ clock = ClockValues[1]
    /\ received = <<>>
    /\ call = NoCall
IdleWatchdog == wd = [called |-> FALSE, d |-> 0, err |-> "nil"]
IdleSteps ==
    /\ th = [t \in Threads |-> NoThread]
    /\ conns = <<>>
    /\ delivered = <<>>
    /\ ka = NoKeepAlive

\* Files alone, over every LISTEN_* environment.
InitFiles ==
    /\ \E p \in PidValues, n \in FdsValues, m \in NamesValues :
          env = [NoEnv EXCEPT !["LISTEN_PID"] = p, !["LISTEN_FDS"] = n,
                              !["LISTEN_FDNAMES"] = m]
    /\ fdKind = [fd \in Fds |-> "tcp"]
    /\ IdleListen /\ IdleNotify /\ IdleWatchdog /\ IdleSteps

UnsetArgs == {<<>>, <<TRUE>>, <<FALSE>>, <<TRUE, TRUE>>}

NextFiles == \E a \in UnsetArgs : Files(a)

SpecFiles == InitFiles /\ [][NextFiles]_vars

\* The whole sdlisten package, over every assignment of sockets to the
\* inherited descriptors.
InitListen ==
    /\ \E p \in {Value(Itoa(Getpid)), Value(Itoa(Getpid + 1))},
          n \in {Unset, Value(<<"-", "1">>)} \cup {Value(Itoa(k)) : k \in 0..MaxFds},
          m \in {Unset, Value(<<"a">>), Value(<<":", "b">>)} :
          env = [NoEnv EXCEPT !["LISTEN_PID"] = p, !["LISTEN_FDS"] = n,
                              !["LISTEN_FDNAMES"] = m]
    /\ fdKind \in [Fds -> Kinds]
    /\ IdleListen /\ IdleNotify /\ IdleWatchdog /\ IdleSteps

NextListen ==
    \/ \E a \in UnsetArgs : Files(a)
    \/ Listeners
    \/ \E hasConfig \in BOOLEAN : TLSListeners(hasConfig)
    \/ PacketConns

SpecListen == InitListen /\ [][NextListen]_vars

\* The sdnotify package.
MsgChars == {"a", "\n"}
Msgs == SeqsUpTo(MsgChars, MaxMsgLen)
Errnos == {-1, 0, 1, 12}

InitNotify ==
    /\ env = NoEnv
    /\ fdKind = [fd \in Fds |-> "tcp"]
    /\ IdleListen /\ IdleWatchdog /\ IdleSteps
    /\ socketPath \in {<<>>, <<"/", "n">>}
    /\ clock \in {ClockValues[i] : i \in 1..Len(ClockValues)}
    /\ received = <<>>
    /\ call = NoCall

NextNotify ==
    \/ \E payload \in Msgs : Notify(payload)
    \/ Ready
    \/ Reloading
    \/ Stopping
    \/ \E msg \in Msgs : Status(msg)
    \/ \E msg \in Msgs : StatusBytes(msg)
    \/ \E msg \in Msgs, errno \in Errnos : Error(msg, errno)
    \/ \E msg \in Msgs, errno \in Errnos : ErrorMessage(msg, errno)
    \/ \E msg \in Msgs, errno \in Errnos : ErrorBytes(msg, errno)
    \/ Watchdog
    \/ WatchdogTrigger
    \/ Tick
    \/ Receive

SpecNotify == InitNotify /\ [][NextNotify]_vars

\* WatchdogInterval, over every WATCHDOG_* environment.
UsecValues ==
    {Unset, Value(<<>>), Value(<<"x">>), Value(<<"1", "x">>), Value(<<"0">>),
     Value(<<"-", "5">>), Value(<<"1">>), Value(<<"5">>), Value(<<"+", "5">>),
     Value(Itoa(MaxInt \div Microsecond)), Value(Itoa(MaxInt \div Microsecond + 1)),
     Value(Itoa(MaxInt)), Value(Itoa(MaxInt) \o <<"0">>)}

InitWatchdog ==
    /\ \E u \in UsecValues, p \in PidValues :
          env = [NoEnv EXCEPT !["WATCHDOG_USEC"] = u, !["WATCHDOG_PID"] = p]
    /\ fdKind = [fd \in Fds |-> "tcp"]
    /\ IdleListen /\ IdleNotify /\ IdleWatchdog /\ IdleSteps

NextWatchdog == WatchdogInterval

SpecWatchdog == InitWatchdog /\ [][NextWatchdog]_vars

\* Concurrent callers of sdnotify, step by step.
InitCalls ==
    /\ env = NoEnv
    /\ fdKind = [fd \in Fds |-> "tcp"]
    /\ IdleListen /\ IdleWatchdog
    /\ socketPath \in {<<>>, <<"/", "n">>}
    /\ clock = ClockValues[1]
    /\ received = <<>>
    /\ call = NoCall
    /\ th = [t \in Threads |-> NoThread]
    /\ conns = <<>>
    /\ delivered = <<>>
    /\ ka = NoKeepAlive

NextCalls ==
    \/ \E t \in Threads : NotifyEnter(t)
    \/ \E t \in Threads : OpenSocket(t)
    \/ \E t \in Threads : Write(t)
    \/ \E t \in Threads : DeferredClose(t)
    \/ \E t \in Threads : NotifyReturn(t)

SpecCalls == InitCalls /\ [][NextCalls]_vars

\* The keep-alive goroutine of the examples, scheduled fairly, with the
\* ticker and a cancellation of its context.
InitKeepAlive ==
    /\ \E u \in UsecValues, p \in PidValues :
          env = [NoEnv EXCEPT !["WATCHDOG_USEC"] = u, !["WATCHDOG_PID"] = p]
    /\ fdKind = [fd \in Fds |-> "tcp"]
    /\ IdleListen /\ IdleWatchdog /\ IdleSteps
    /\ socketPath \in {<<>>, <<"/", "n">>}
    /\ clock = ClockValues[1]
    /\ received = <<>>
    /\ call = NoCall

NextKeepAlive ==
    \/ KeepAliveStart
    \/ TimerTick
    \/ Cancel
    \/ SelectDone
    \/ BreakSelect
    \/ SelectTick
    \/ KeepAliveWatchdog

\* The goroutine is scheduled: a step it can take is taken.
FairKeepAlive ==
    /\ WF_vars(KeepAliveStart)
    /\ WF_vars(SelectDone)
    /\ WF_vars(BreakSelect)
    /\ WF_vars(SelectTick)
    /\ WF_vars(KeepAliveWatchdog)

SpecKeepAlive == InitKeepAlive /\ [][NextKeepAlive]_vars /\ FairKeepAlive

\* ------------------------------------------------------------- properties
\* A decimal numeral: an optional sign, then one or more digits.
IsNumeral(s) ==
    LET body == IF s # <<>> /\ s[1] \in {"+", "-"} THEN Tail(s) ELSE s
    IN  body # <<>> /\ \A i \in 1..Len(body) : IsDigit(body[i])

\* The variable holds the numeral of this process's id.
IsOwnPid(v) == v.set /\ v.val \in {Itoa(Getpid), <<"+">> \o Itoa(Getpid)}

\* The number of colon-separated names in a LISTEN_FDNAMES value.
NameCount(s) == 1 + Cardinality({p \in 1..Len(s) : s[p] = ":"})

\* The i-th (from 0) colon-separated name of s: the bytes that have exactly
\* i colons before them.
NameAt(s, i) ==
    LET at == {p \in 1..Len(s) :
                  s[p] # ":" /\ Cardinality({q \in 1..p : s[q] = ":"}) = i}
    IN  IF at = {} THEN <<>>
        ELSE LET first == CHOOSE p \in at : \A q \in at : p <= q
             IN  SubSeq(s, first, first + Cardinality(at) - 1)

\* The name the claim gives handle i of an environment with names value v.
ExpectedName(v, i) ==
    IF v.set /\ i < NameCount(v.val) /\ NameAt(v.val, i) # <<>>
    THEN NameAt(v.val, i)
    ELSE <<"L", "I", "S", "T", "E", "N", "_", "F", "D", "_">> \o Itoa(3 + i)

\* C1: when LISTEN_PID is this process, LISTEN_FDS is a positive N and
\* LISTEN_FDNAMES is unset or lists k <= N names, Files returns exactly N
\* handles, the i-th on descriptor 3+i, named names[i] when that is listed
\* and not empty and LISTEN_FD_<3+i> otherwise.
C1_FilesResolvesAll ==
    [][\A N \in 1..MaxFds :
          ( /\ ret'.op = "Files"
            /\ IsOwnPid(env["LISTEN_PID"])
            /\ env["LISTEN_FDS"] = Value(Itoa(N))
            /\ env["LISTEN_FDNAMES"].set
                   => NameCount(env["LISTEN_FDNAMES"].val) <= N )
          => /\ ~panicked'
             /\ Len(ret'.files) = N
             /\ \A i \in 0..(N - 1) :
                   /\ ret'.files[i + 1].fd = 3 + i
                   /\ ret'.files[i + 1].name = ExpectedName(env["LISTEN_FDNAMES"], i)
    ]_vars

\* Files returned two handles for the names value ":b": the first name is
\* listed empty and so synthesized, the second carries the listed name.
C1_Witness ==
    /\ ret.op = "Files" /\ ret.unset = <<>>
    /\ IsOwnPid(env["LISTEN_PID"])
    /\ env["LISTEN_FDS"] = Value(<<"2">>)
    /\ env["LISTEN_FDNAMES"] = Value(<<":", "b">>)
    /\ Len(ret.files) = 2
    /\ ret.files[1].name = <<"L", "I", "S", "T", "E", "N", "_", "F", "D", "_", "3">>
    /\ ret.files[2].name = <<"b">>

\* LISTEN_FDS is absent, not a numeral, or a numeral of zero.
FdsAbsentMalformedOrZero(v) ==
    \/ ~v.set
    \/ ~IsNumeral(v.val)
    \/ \A i \in 1..Len(v.val) : v.val[i] \in {"+", "-", "0"}

\* C2: Files returns the empty set, panics on nothing and marks or closes
\* no descriptor whenever LISTEN_PID is absent, not a number or another
\* process (whatever LISTEN_FDS is), and whenever LISTEN_FDS is absent, not
\* a number or zero.
C2_FilesFailsSoft ==
    [][( /\ ret'.op = "Files"
         /\ \/ ~IsOwnPid(env["LISTEN_PID"])
            \/ FdsAbsentMalformedOrZero(env["LISTEN_FDS"]) )
       => /\ ret'.files = <<>>
          /\ ~panicked'
          /\ cloexec' = cloexec
          /\ closes' = closes
    ]_vars

\* Files returned nothing for another process's LISTEN_PID with LISTEN_FDS=2.
C2_Witness ==
    /\ ret.op = "Files" /\ ret.unset = <<>>
    /\ env["LISTEN_PID"] = Value(Itoa(Getpid + 1))
    /\ env["LISTEN_FDS"] = Value(<<"2">>)
    /\ ret.files = <<>>
    /\ cloexec = {}

\* LISTEN_PID, LISTEN_FDS and LISTEN_FDNAMES are all unset in e.
ListenUnset(e) ==
    ~e["LISTEN_PID"].set /\ ~e["LISTEN_FDS"].set /\ ~e["LISTEN_FDNAMES"].set

\* C10: Files(true) leaves LISTEN_PID, LISTEN_FDS and LISTEN_FDNAMES unset
\* when it returns, with descriptors or without; once they are unset every
\* later Files, Listeners or PacketConns returns the empty set (and leaves
\* them unset); Files() and Files(false) leave the environment unchanged.
C10_UnsetEnvironment ==
    [][ /\ (ret'.op = "Files" /\ ret'.unset = <<TRUE>> /\ ~panicked')
            => ListenUnset(env')
        /\ (ret'.op = "Files" /\ ret'.unset \in {<<>>, <<FALSE>>})
            => env' = env
        /\ (ListenUnset(env) /\ ret'.op \in {"Files", "Listeners", "PacketConns"})
            => /\ ret'.files = <<>> /\ ret'.listeners = <<>>
               /\ ret'.conns = <<>> /\ ret'.err = <<>>
               /\ ListenUnset(env')
    ]_vars

\* A Listeners call that came after the environment was cleared by a call
\* that had consumed descriptors: it returned nothing.
C10_Witness ==
    /\ ret.op = "Listeners"
    /\ ret.listeners = <<>> /\ ret.err = <<>>
    /\ ListenUnset(env)
    /\ \E fd \in Fds : closes[fd] > 0

\* The members of a sequence.
Range(q) == {q[i] : i \in 1..Len(q)}

\* out holds exactly the handles of files that convert, each once, with its
\* name, in ascending descriptor order; err holds one part for each handle
\* that does not convert.
ConvertedExactly(files, out, err, Converts(_)) ==
    LET good == {f \in Range(files) : Converts(f.fd)}
        bad  == Range(files) \ good
    IN  /\ Len(out) = Cardinality(good)
        /\ {[fd |-> o.fd, name |-> o.name] : o \in Range(out)} = good
        /\ \A i \in 1..Len(out), j \in 1..Len(out) : i < j => out[i].fd < out[j].fd
        /\ Len(err) = Cardinality(bad)
        /\ Range(err) = bad
        /\ (err = <<>>) <=> (bad = {})

\* C8: Listeners and PacketConns go through every descriptor Files resolved
\* even when conversions fail: they return exactly the converted ones, each
\* with its resolved name, in ascending descriptor order, and an error that
\* is nil iff nothing failed and otherwise joins one error per failure.
C8_ConversionsAccumulate ==
    [][ /\ (ret'.op = "Listeners" /\ ~panicked')
            => LET Converts(fd) == FileListenerOk(KindOf(fdKind, fd))
               IN  ConvertedExactly(FilesBody(env).files, ret'.listeners,
                                    ret'.err, Converts)
        /\ (ret'.op = "PacketConns" /\ ~panicked')
            => LET Converts(fd) == FilePacketConnOk(KindOf(fdKind, fd))
               IN  ConvertedExactly(FilesBody(env).files, ret'.conns,
                                    ret'.err, Converts)
    ]_vars

\* Listeners returned a listener for a descriptor that comes after one whose
\* conversion failed.
C8_Witness ==
    /\ ret.op = "Listeners"
    /\ \E i \in 1..Len(ret.listeners), j \in 1..Len(ret.err) :
          ret.err[j].fd < ret.listeners[i].fd

\* C9: with a nil TLS configuration, or when Listeners yields nothing,
\* TLSListeners returns exactly what Listeners returns in the same
\* environment, the same listeners and the same error, none wrapped.
C9_TLSListenersAsIs ==
    [][ LET base == ListenersResult(env, fdKind)
        IN  ( /\ ret'.op = "TLSListeners" /\ ~panicked'
              /\ (~ret'.tls \/ base.listeners = <<>>) )
            => /\ ret'.listeners = base.listeners
               /\ ret'.err = base.err
    ]_vars

\* The calls that hand a message to sdnotify, but for Reloading.
PlainOps == {"Notify", "Ready", "Stopping", "Status", "StatusBytes", "Error",
             "ErrorMessage", "ErrorBytes", "Watchdog", "WatchdogTrigger"}
ErrorOps == {"Error", "ErrorMessage", "ErrorBytes"}

\* C3: with socketPath empty, Notify and every wrapper return nil for any
\* payload, dial no connection and transmit nothing.
C3_NoEndpointNoOp ==
    (socketPath = <<>> /\ call.op \in PlainOps)
        => /\ call.err = "nil"
           /\ call.dials = 0 /\ call.writes = 0 /\ call.closes = 0
           /\ call.sent = <<>>
           /\ received = <<>>

\* Error was called with a message and an errno while socketPath is empty.
C3_Witness ==
    /\ socketPath = <<>>
    /\ call.op = "Error" /\ call.msg = <<"a", "\n">> /\ call.errno = 12
    /\ call.err = "nil"

\* The payload the claim gives Reloading when the clock reads c: both fields,
\* the time in whole microseconds.
ExpectedReloading(c) ==
    <<"R", "E", "L", "O", "A", "D", "I", "N", "G", "=", "1", "\n",
      "M", "O", "N", "O", "T", "O", "N", "I", "C", "_", "U", "S", "E", "C", "=">>
        \o Itoa((c.sec * 1000000000 + c.nsec) \div 1000)

\* C4: one Reloading call with the endpoint set, when the clock read, the
\* dial and the write succeed, puts exactly one datagram on the supervisor's
\* socket, RELOADING=1\nMONOTONIC_USEC=<T> with T the clock's microseconds at
\* the call; no Reloading call makes more than one write or datagram.
C4_ReloadingOneDatagram ==
    [][Reloading
         => /\ call'.writes <= 1 /\ Len(call'.sent) <= 1
            /\ received' = received \o call'.sent
            /\ (socketPath # <<>> /\ call'.err = "nil")
                  => call'.sent = <<ExpectedReloading(clock)>>
    ]_vars

\* Reloading delivered its datagram at a time past the first second.
C4_Witness ==
    /\ call.op = "Reloading" /\ call.err = "nil"
    /\ socketPath # <<>>
    /\ clock.sec > 0
    /\ received = <<ExpectedReloading(clock)>>

\* A line of payload p starts with ERRNO=.
HasErrnoField(p) ==
    \E i \in 1..Len(p) :
        /\ (i = 1 \/ p[i - 1] = "\n")
        /\ i + 5 <= Len(p)
        /\ SubSeq(p, i, i + 5) = <<"E", "R", "R", "N", "O", "=">>

\* C5: Error, ErrorMessage and ErrorBytes make at most one write; a call that
\* gets through (endpoint set, dial and write succeed) transmits exactly one
\* datagram: STATUS=<message>, followed by a newline and ERRNO=<errno> if
\* and only if errno > 0.
C5_ErrorOneDatagram ==
    call.op \in ErrorOps
        => /\ call.writes <= 1 /\ Len(call.sent) <= 1
           /\ (socketPath # <<>> /\ call.err = "nil")
                 => /\ Len(call.sent) = 1
                    /\ LET p == call.sent[1]
                           n == 7 + Len(call.msg)
                       IN  /\ Len(p) >= n
                           /\ SubSeq(p, 1, 7) = <<"S", "T", "A", "T", "U", "S", "=">>
                           /\ HasErrnoField(p) <=> call.errno > 0
                           /\ IF call.errno > 0
                              THEN SubSeq(p, n + 1, Len(p)) =
                                      <<"\n", "E", "R", "R", "N", "O", "=">>
                                          \o Itoa(call.errno)
                              ELSE Len(p) = n

\* Error transmitted a message with a two-digit errno.
C5_Witness ==
    /\ call.op = "Error" /\ call.errno = 12 /\ call.msg = <<"a">>
    /\ call.err = "nil"
    /\ received = <<<<"S", "T", "A", "T", "U", "S", "=", "a", "\n",
                      "E", "R", "R", "N", "O", "=", "1", "2">>>>

\* C6: the STATUS value Error, ErrorMessage and ErrorBytes transmit is the
\* message with each newline replaced by one space and every other byte
\* unchanged, same length and order; the payload has exactly one newline
\* when errno > 0 and none otherwise.
C6_NewlinesToSpaces ==
    (call.op \in ErrorOps /\ call.sent # <<>>)
        => LET p == call.sent[1]
               n == Len(call.msg)
           IN  /\ Len(p) >= 7 + n
               /\ \A i \in 1..n :
                     p[7 + i] = IF call.msg[i] = "\n" THEN " " ELSE call.msg[i]
               /\ Cardinality({i \in 1..Len(p) : p[i] = "\n"})
                     = IF call.errno > 0 THEN 1 ELSE 0

\* ErrorBytes transmitted a message of two newlines with an errno.
C6_Witness ==
    /\ call.op = "ErrorBytes" /\ call.msg = <<"\n", "\n">> /\ call.errno = 1
    /\ call.sent # <<>>
    /\ received = call.sent

\* The variable holds the numeral of a positive integer of the int's width.
IsPositiveInt(v) ==
    /\ v.set /\ IsNumeral(v.val) /\ v.val[1] # "-"
    /\ LET m == Magnitude(IF v.val[1] = "+" THEN Tail(v.val) ELSE v.val)
       IN  0 < m /\ m <= MaxInt

\* The microseconds a positive WATCHDOG_USEC value states.
UsecOf(v) == Magnitude(IF v.val[1] = "+" THEN Tail(v.val) ELSE v.val)

\* C7: WatchdogInterval never returns an error; it returns usec microseconds
\* when WATCHDOG_USEC is a positive integer and WATCHDOG_PID is this
\* process, and 0 in every other case.
C7_WatchdogIntervalResult ==
    wd.called
        => /\ wd.err = "nil"
           /\ IF IsPositiveInt(env["WATCHDOG_USEC"]) /\ IsOwnPid(env["WATCHDOG_PID"])
              THEN wd.d = UsecOf(env["WATCHDOG_USEC"]) * 1000
              ELSE wd.d = 0

\* The connections thread t's calls dialled.
ConnsOf(t) == {i \in 1..Len(conns) : conns[i].dialer = t}

\* C11: every call with the endpoint set opens, writes once and closes a
\* connection of its own: the connection is fresh and open at the write, has
\* had its one write at the close, and is closed once the call returns,
\* after a failed write too; no call holds a connection between calls and
\* no connection is written twice or touched by another call.
C11_OwnConnectionPerCall ==
    /\ \A i \in 1..Len(conns) : conns[i].writes <= 1 /\ ~conns[i].misused
    /\ \A t \in Threads :
          /\ th[t].pc \in {"idle", "openSocket", "return"}
                => \A i \in ConnsOf(t) : ~conns[i].open
          /\ th[t].pc \in {"write", "close"}
                => /\ th[t].c \in ConnsOf(t)
                   /\ \A i \in ConnsOf(t) : conns[i].open <=> i = th[t].c
                   /\ conns[th[t].c].writes = IF th[t].pc = "write" THEN 0 ELSE 1
          /\ th[t].pc = "idle" => th[t].c = 0

\* A thread's second call is about to return its write error, and the
\* connection it dialled is closed.
C11_Witness ==
    \E t \in Threads :
        /\ th[t].pc = "return" /\ th[t].calls = 1
        /\ th[t].writeFailed /\ th[t].err = "send"
        /\ th[t].c \in ConnsOf(t)
        /\ conns[th[t].c].writes = 1 /\ ~conns[th[t].c].open

\* C12: a call makes at most one connection attempt and one write; when the
\* open or the write fails it returns a non-nil error, and it returns nil
\* only when the write succeeded or the endpoint is unset.
C12_FailureReturnsError ==
    \A t \in Threads :
        /\ th[t].dials <= 1 /\ th[t].writes <= 1
        /\ th[t].dialFailed => th[t].writes = 0
        /\ th[t].pc = "return"
              => /\ (th[t].dialFailed \/ th[t].writeFailed) => th[t].err # "nil"
                 /\ th[t].err = "nil"
                       => \/ th[t].sentOk /\ th[t].writes = 1
                          \/ ~socketAddr(socketPath) /\ th[t].dials = 0

\* A call is about to return the error of its one failed connection
\* attempt, without having written.
C12_Witness ==
    \E t \in Threads :
        /\ th[t].pc = "return" /\ th[t].dialFailed /\ th[t].err = "open"
        /\ th[t].dials = 1 /\ th[t].writes = 0 /\ socketAddr(socketPath)

\* The bytes Ready, Stopping, Watchdog and WatchdogTrigger are to send.
FixedPayload(op) ==
    CASE op = "Ready" -> <<"R", "E", "A", "D", "Y", "=", "1">>
      [] op = "Stopping" -> <<"S", "T", "O", "P", "P", "I", "N", "G", "=", "1">>
      [] op = "Watchdog" -> <<"W", "A", "T", "C", "H", "D", "O", "G", "=", "1">>
      [] op = "WatchdogTrigger" ->
            <<"W", "A", "T", "C", "H", "D", "O", "G", "=",
              "t", "r", "i", "g", "g", "e", "r">>

\* C13: Ready, Stopping, Watchdog and WatchdogTrigger make at most one
\* write, and a call that succeeds with the endpoint set has sent exactly
\* one datagram, the bytes READY=1, STOPPING=1, WATCHDOG=1 or
\* WATCHDOG=trigger with no newline and no other field.
C13_FixedMessages ==
    call.op \in {"Ready", "Stopping", "Watchdog", "WatchdogTrigger"}
        => /\ call.writes <= 1 /\ Len(call.sent) <= 1
           /\ \A i \in 1..Len(call.sent) : call.sent[i] = FixedPayload(call.op)
           /\ (socketPath # <<>> /\ call.err = "nil")
                 => call.sent = <<FixedPayload(call.op)>>

\* WatchdogTrigger succeeded and the receiver's socket holds its datagram.
C13_Witness ==
    /\ call.op = "WatchdogTrigger" /\ call.err = "nil" /\ call.writes = 1
    /\ received = <<<<"W", "A", "T", "C", "H", "D", "O", "G", "=",
                      "t", "r", "i", "g", "g", "e", "r">>>>

\* C14: Files does not panic, whatever LISTEN_PID, LISTEN_FDS and
\* LISTEN_FDNAMES hold, a negative LISTEN_FDS with a matching LISTEN_PID
\* included.
C14_FilesNeverPanics == ~panicked

\* C15: once the context of the keep-alive loop is cancelled, the loop
\* eventually exits.
C15_KeepAliveTerminates == ka.cancelled ~> (ka.pc = "exited")

\* The calls that send a STATUS field.
StatusOps == {"Status", "StatusBytes", "Error", "ErrorMessage", "ErrorBytes"}

\* C16: no datagram of Status, StatusBytes or the Error functions has a
\* newline inside its STATUS value: the bytes after STATUS= hold no newline
\* but the one that begins an ERRNO field.
C16_StatusValueOneLine ==
    call.op \in StatusOps
        => \A k \in 1..Len(call.sent) :
              LET p == call.sent[k]
              IN  \A i \in 8..Len(p) :
                     p[i] = "\n"
                        => /\ call.op \in ErrorOps /\ call.errno > 0
                           /\ SubSeq(p, i + 1, Len(p)) = errnoPrefix \o Itoa(call.errno)

\* C17: when at least one descriptor converts and at least one fails,
\* TLSListeners returns the converted listeners, as many as Listeners
\* converts, on the same descriptors and with the same names, together with
\* the joined error.
C17_TLSListenersKeepsSiblings ==
    [][ LET base == ListenersResult(env, fdKind)
        IN  ( /\ ret'.op = "TLSListeners" /\ ~panicked'
              /\ base.listeners # <<>> /\ base.err # <<>> )
            => /\ ret'.err = base.err
               /\ Len(ret'.listeners) = Len(base.listeners)
               /\ \A i \in 1..Len(ret'.listeners) :
                     /\ ret'.listeners[i].fd = base.listeners[i].fd
                     /\ ret'.listeners[i].name = base.listeners[i].name
    ]_vars

\* C18: with a TLS configuration and a base result that holds listeners,
\* TLSListeners returns as many listeners as Listeners, in the same order
\* and with the same names, the i-th wrapped in a TLS listener iff its
\* network is "tcp".
C18_TLSWrapsTcpOnly ==
    [][ LET base == ListenersResult(env, fdKind)
        IN  ( /\ ret'.op = "TLSListeners" /\ ~panicked'
              /\ ret'.tls /\ base.listeners # <<>> )
            => /\ Len(ret'.listeners) = Len(base.listeners)
               /\ \A i \in 1..Len(base.listeners) :
                     /\ i <= Len(ret'.listeners)
                     /\ ret'.listeners[i].fd = base.listeners[i].fd
                     /\ ret'.listeners[i].name = base.listeners[i].name
                     /\ ret'.listeners[i].network = base.listeners[i].network
                     /\ ret'.listeners[i].tls <=> base.listeners[i].network = "tcp"
    ]_vars

\* The raw handles a call closed: by how much closes grew on each descriptor
\* is one for a handle of files that converts, and zero otherwise.
ClosedExactlyConverted(files, before, after, Converts(_)) ==
    \A fd \in DOMAIN before :
        after[fd] - before[fd] =
            IF (\E i \in 1..Len(files) : files[i].fd = fd) /\ Converts(fd)
            THEN 1 ELSE 0

\* C20: a call of Listeners or PacketConns closes each raw handle of Files
\* at most once, exactly those whose conversion succeeded; a handle whose
\* conversion failed is not closed.
C20_ClosesConvertedOnly ==
    [][ /\ (ret'.op = "Listeners" /\ ~panicked')
            => LET Converts(fd) == FileListenerOk(KindOf(fdKind, fd))
               IN  ClosedExactlyConverted(FilesBody(env).files, closes, closes',
                                          Converts)
        /\ (ret'.op = "PacketConns" /\ ~panicked')
            => LET Converts(fd) == FilePacketConnOk(KindOf(fdKind, fd))
               IN  ClosedExactlyConverted(FilesBody(env).files, closes, closes',
                                          Converts)
    ]_vars

\* PacketConns returned a connection and an error: the handle of each
\* connection was closed once, the handle of each failure not at all.
C20_Witness ==
    /\ ret.op = "PacketConns"
    /\ ret.conns # <<>> /\ ret.err # <<>>
    /\ \A i \in 1..Len(ret.conns) : closes[ret.conns[i].fd] = 1
    /\ \A j \in 1..Len(ret.err) : closes[ret.err[j].fd] = 0

\* The datagrams that arrived over connection id.
DeliveredOn(id) == {k \in 1..Len(delivered) : delivered[k].conn = id}

\* C19: concurrent calls do not interfere: every datagram arrived over the
\* connection of the call that sent it and is that call's payload, whole;
\* no connection carries two datagrams or is written or closed by a call
\* that did not dial it; a call whose write succeeded has exactly one
\* datagram on its connection and a call whose write failed has none.
C19_CallsDoNotInterfere ==
    /\ \A k \in 1..Len(delivered) :
          LET d == delivered[k]
          IN  /\ d.conn \in 1..Len(conns)
              /\ conns[d.conn].dialer = d.by
              /\ d.data = conns[d.conn].payload
              /\ d.data = ThreadPayload(d.by)
    /\ \A i \in 1..Len(conns) :
          /\ ~conns[i].misused
          /\ Cardinality(DeliveredOn(i)) <= 1
    /\ \A t \in Threads :
          th[t].pc \in {"close", "return"} /\ th[t].c # 0
             => /\ conns[th[t].c].dialer = t
                /\ Cardinality(DeliveredOn(th[t].c)) = IF th[t].sentOk THEN 1 ELSE 0
                /\ th[t].sentOk <=> th[t].err = "nil"

\* Two calls are in flight at once, each between its write and its close on
\* a connection of its own, and both datagrams arrived.
C19_Witness ==
    \E t \in Threads, u \in Threads :
        /\ t # u
        /\ th[t].pc = "close" /\ th[u].pc = "close"
        /\ th[t].sentOk /\ th[u].sentOk
        /\ th[t].c # th[u].c
        /\ conns[th[t].c].open /\ conns[th[u].c].open
        /\ Len(delivered) >= 2

\* C21: for a WATCHDOG_USEC that is a positive integer of the int's width,
\* with WATCHDOG_PID this process, the duration WatchdogInterval returns is
\* positive, not less than usec, and equal to usec * 1000 nanoseconds: the
\* multiplication does not wrap.
C21_IntervalNeverWraps ==
    ( /\ wd.called
      /\ IsPositiveInt(env["WATCHDOG_USEC"])
      /\ IsOwnPid(env["WATCHDOG_PID"]) )
        => /\ wd.d > 0
           /\ wd.d >= UsecOf(env["WATCHDOG_USEC"])
           /\ wd.d = UsecOf(env["WATCHDOG_USEC"]) * 1000
====
